---- MODULE Spec2Model ----
(***************************************************************************)
(* A model of server.js: the four request handlers of the GradientM        *)
(* chatbot backend (submit-lead, leads, chat, stats) over the leads file,  *)
(* the wall clock and the two outbound providers.                          *)
(*                                                                         *)
(* Strings of the program are sequences of one-character strings, so that  *)
(* trim(), toLowerCase() and the e-mail regular expression are computed    *)
(* character by character.  A JavaScript value of a request body is a      *)
(* record [t |-> its type, s |-> String(value)].                           *)
(* Every await of a handler is a step: handlers interleave at their awaits *)
(* exactly as the event loop lets them.                                    *)
(***************************************************************************)
EXTENDS Integers, Sequences, FiniteSets, TLC

\* ------------------------------------------------------------------ bounds
\* Number of requests the server receives in one behaviour.
MaxReq == 2
Reqs == 1..MaxReq

\* --------------------------------------------------------- JavaScript values
Undefined == [t |-> "undefined", s |-> <<>>]
Str(s)    == [t |-> "string", s |-> s]
Num7      == [t |-> "number", s |-> <<"7">>]
Arr(s)    == [t |-> "array", s |-> s]

\* ToBoolean(v): undefined and "" are falsy; 7, an array, a non-empty string are truthy.
Truthy(v) == CASE v.t = "undefined" -> FALSE
               [] v.t = "string"    -> v.s # <<>>
               [] OTHER             -> TRUE

\* Only strings have .trim() and .toLowerCase(); calling them on another
\* truthy value throws a TypeError.
HasStringMethods(v) == v.t = "string"

Whitespace == {" ", "\t", "\n"}

RECURSIVE TrimStart(_)
TrimStart(s) == IF s # <<>> /\ Head(s) \in Whitespace THEN TrimStart(Tail(s)) ELSE s

RECURSIVE TrimEnd(_)
TrimEnd(s) ==
  IF s # <<>> /\ s[Len(s)] \in Whitespace THEN TrimEnd(SubSeq(s, 1, Len(s) - 1)) ELSE s

\* String.prototype.trim
trim(s) == TrimEnd(TrimStart(s))

LowerChar(c) == CASE c = "A" -> "a"
                  [] c = "B" -> "b"
                  [] c = "C" -> "c"
                  [] c = "H" -> "h"
                  [] c = "I" -> "i"
                  [] OTHER   -> c

\* String.prototype.toLowerCase
toLowerCase(s) == IF s = <<>> THEN <<>> ELSE [i \in 1..Len(s) |-> LowerChar(s[i])]

\* /^[^\s@]+@[^\s@]+\.[^\s@]+$/.test(s): one "@" at position i with a
\* non-empty local part, a "." at position j after a non-empty domain part and
\* before a non-empty rest, and no whitespace and no other "@" anywhere.
emailRegexTest(s) ==
  \E i \in 1..Len(s) : \E j \in 1..Len(s) :
     /\ 1 < i /\ s[i] = "@"
     /\ i + 1 < j /\ s[j] = "."
     /\ j < Len(s)
     /\ \A k \in 1..Len(s) : k # i => s[k] \notin (Whitespace \cup {"@"})

\* --------------------------------------------------------------- the store
\* data/leads.json: absent, holding text that JSON.parse rejects (an empty or
\* partly written file), holding a JSON value that is no array, or holding
\* the array of leads that JSON.stringify(leads, null, 2) wrote.
AbsentFile  == [kind |-> "absent", leads |-> <<>>]
CorruptFile == [kind |-> "corrupt", leads |-> <<>>]
ObjectFile  == [kind |-> "object", leads |-> <<>>]

\* JSON.stringify(leads, null, 2), as the content of the file.
JSONstringify(leads) == [kind |-> "array", leads |-> leads]

\* await fs.readFile(leadsFile, 'utf8') followed by JSON.parse(data):
\* [ok |-> FALSE] when either throws (ENOENT, an I/O error, a SyntaxError),
\* else the parsed value.
ReadAndParse(f, ioOk) ==
  IF ~ioOk \/ f.kind \in {"absent", "corrupt"}
    THEN [ok |-> FALSE, isArray |-> FALSE, items |-> <<>>]
    ELSE [ok |-> TRUE, isArray |-> (f.kind = "array"), items |-> f.leads]

\* What listAll would return of the file: its leads, or none.
Stored(f) == IF f.kind = "array" THEN f.leads ELSE <<>>

\* ------------------------------------------------------------ strings used
NoMessage == <<"N","o"," ","a","d","d","i","t","i","o","n","a","l"," ",
               "m","e","s","s","a","g","e"," ","p","r","o","v","i","d","e","d">>
GeneralInquiryLower == <<"G","e","n","e","r","a","l"," ","i","n","q","u","i","r","y">>
GeneralInquiry == <<"G","e","n","e","r","a","l"," ","I","n","q","u","i","r","y">>
ContactForm == <<"c","o","n","t","a","c","t","_","f","o","r","m">>
Unknown == <<"u","n","k","n","o","w","n">>
Constructor == <<"c","o","n","s","t","r","u","c","t","o","r">>
ToStringKey == <<"t","o","S","t","r","i","n","g">>

\* ----------------------------------------------------------------- state
VARIABLES
  file,     \* the content of data/leads.json
  now,      \* the wall clock, in ms
  config,   \* AZURE_CONFIG: which of searchEndpoint, searchKey are set
  req,      \* per request in flight: the handler's position and its locals
  last      \* the request answered last: its locals and its response

vars == <<file, now, config, req, last>>

NoLead == [id |-> ""]
NoOutcome == [kind |-> "none"]
NoRes  == [status |-> 0]
\* req.body, with req.ip (the source address Express observed) beside it.
NoBody == [name |-> Undefined, phone |-> Undefined, email |-> Undefined,
           company |-> Undefined, message |-> Undefined,
           requirement |-> Undefined, type |-> Undefined, ip |-> Undefined]

Idle == [handler |-> "none", pc |-> "idle", body |-> NoBody,
         leadData |-> NoLead, leads |-> <<>>, searchResults |-> <<>>,
         systemMessage |-> <<>>, searchCalls |-> 0, completionCalls |-> 0,
         searchOutcome |-> NoOutcome, completionOutcome |-> NoOutcome,
         res |-> NoRes,
         \* history: the store when the request arrived, what it read, what
         \* its write left, the outcome of its read, the operation that threw
         \* into the handler's outer catch, and the status answered to a
         \* request that read the same array and wrote it back first
         before |-> <<>>, snapshot |-> <<>>, stored |-> <<>>, wrote |-> FALSE,
         readOk |-> FALSE, fault |-> "none", overtakenBy |-> 0]

\* A request that has been answered holds nothing any more.
Closed == [Idle EXCEPT !.pc = "closed"]

Init ==
  /\ file \in {AbsentFile, CorruptFile, ObjectFile, JSONstringify(<<>>)}
  /\ now = 1
  /\ config \in [searchEndpoint : BOOLEAN, searchKey : BOOLEAN]
  /\ req = [r \in Reqs |-> Idle]
  /\ last = Idle

\* Requests are numbered in the order they arrive.
Arrives(r) ==
  /\ req[r].pc = "idle"
  /\ \A q \in Reqs : q < r => req[q].pc # "idle"

\* res.status(status).json(json) ends the request.
Respond(r, fields, status, json) ==
  /\ last' = [fields EXCEPT !.pc = "done", !.res = [status |-> status, json |-> json]]
  /\ req' = [req EXCEPT ![r] = Closed]

\* The clock is observed only where a handler reads it: since the reading
\* before, it has stood still (dt = 0) or moved on by a millisecond (dt = 1).
Elapsed == {0, 1}

\* ------------------------------------------------- POST /api/submit-lead
\* if (!name || !phone || !email || !company)
MissingRequired(b) ==
  ~Truthy(b.name) \/ ~Truthy(b.phone) \/ ~Truthy(b.email) \/ ~Truthy(b.company)

\* if (!emailRegex.test(email)): test() applies String() to its argument.
InvalidEmail(b) == ~emailRegexTest(b.email.s)

\* Building leadData throws a TypeError when .trim() is called on a truthy
\* value that is no string.
LeadDataThrows(b) ==
  \/ ~HasStringMethods(b.name)
  \/ ~HasStringMethods(b.phone)
  \/ ~HasStringMethods(b.email)
  \/ ~HasStringMethods(b.company)
  \/ (Truthy(b.message) /\ ~HasStringMethods(b.message))
  \/ (Truthy(b.requirement) /\ ~HasStringMethods(b.requirement))

\* Date.now().toString()
LeadId(t) == ToString(t)

\* new Date().toISOString(), and new Date(iso) back
toISOString(t) == <<"ISO", t>>
DateOf(iso) == iso[2]

\* const leadData = { ... }
MakeLeadData(b, t) ==
  [id          |-> LeadId(t),
   name        |-> trim(b.name.s),
   phone       |-> trim(b.phone.s),
   email       |-> toLowerCase(trim(b.email.s)),
   company     |-> trim(b.company.s),
   message     |-> IF Truthy(b.message) THEN trim(b.message.s) ELSE NoMessage,
   requirement |-> IF Truthy(b.requirement) THEN trim(b.requirement.s)
                                            ELSE GeneralInquiryLower,
   type        |-> IF Truthy(b.type) THEN b.type ELSE Str(ContactForm),
   submittedAt |-> toISOString(t),
   ip          |-> IF Truthy(b.ip) THEN b.ip.s ELSE Unknown]

MissingFieldsBody ==
  [success |-> FALSE,
   message |-> "Missing required fields: name, phone, email, and company are required"]
InvalidEmailBody == [success |-> FALSE, message |-> "Invalid email format"]

\* (mutant) the catch answers as if the lead had been saved
SubmitCatchSwallows ==
  [status |-> 200,
   json |-> [success |-> TRUE, message |-> "Lead submitted successfully", leadId |-> ""]]

\* catch (error) { res.status(500).json({ success: false, ... }) }
SubmitCatchRes == [status |-> 500,
                   json |-> [success |-> FALSE, message |-> "Internal server error"]]

\* res.json({ success: true, message: ..., leadId: leadData.id })
SubmitOkRes(leadData) ==
  [status |-> 200,
   json |-> [success |-> TRUE, message |-> "Lead submitted successfully",
             leadId |-> leadData.id]]

\* (mutant) the lead is never pushed
PushForgotten(leads, leadData) == leads

\* leads.push(leadData)
Push(leads, leadData) == Append(leads, leadData)

\* The handler up to its first await: validation, leadData (which reads the
\* clock), the call of mkdir.
SubmitLead(r, b, dt) ==
  /\ Arrives(r)
  /\ LET started == [req[r] EXCEPT !.handler = "submit", !.body = b,
                                   !.before = Stored(file)]
     IN  IF MissingRequired(b)
           THEN Respond(r, started, 400, MissingFieldsBody) /\ now' = now
         ELSE IF InvalidEmail(b)
           THEN Respond(r, started, 400, InvalidEmailBody) /\ now' = now
         ELSE IF LeadDataThrows(b)
           THEN /\ Respond(r, [started EXCEPT !.fault = "leadData"],
                           SubmitCatchRes.status, SubmitCatchRes.json)
                /\ now' = now
         ELSE /\ now' = now + dt
              /\ req' = [req EXCEPT ![r] =
                           [started EXCEPT !.pc = "mkdir",
                                           !.leadData = MakeLeadData(b, now')]]
              /\ last' = last
  /\ UNCHANGED <<file, config>>

\* await fs.mkdir(..., { recursive: true }) settles.
MkdirDone(r, ok) ==
  /\ req[r].handler = "submit" /\ req[r].pc = "mkdir"
  /\ IF ok
       THEN req' = [req EXCEPT ![r].pc = "readFile"] /\ last' = last
       ELSE Respond(r, [req[r] EXCEPT !.fault = "mkdir"],
                    SubmitCatchRes.status, SubmitCatchRes.json)
  /\ UNCHANGED <<file, now, config>>

\* await fs.readFile settles; JSON.parse, the inner catch, leads.push,
\* JSON.stringify and the call of writeFile follow in the same turn.
SubmitReadDone(r, ioOk) ==
  /\ req[r].handler = "submit" /\ req[r].pc = "readFile"
  /\ LET got   == ReadAndParse(file, ioOk)
         leads == IF got.ok THEN got.items ELSE <<>>
     IN  IF got.ok /\ ~got.isArray
           THEN \* leads.push is not a function
                Respond(r, [req[r] EXCEPT !.fault = "push", !.readOk = TRUE],
                        SubmitCatchRes.status, SubmitCatchRes.json)
           ELSE /\ req' = [req EXCEPT ![r].pc = "writeFile",
                                      ![r].snapshot = leads,
                                      ![r].readOk = got.ok,
                                      ![r].leads = Push(leads, req[r].leadData)]
                /\ last' = last
  /\ UNCHANGED <<file, now, config>>

\* (mutant) the lead is appended to what the file holds when the write lands
WriteContentMerged(r) == JSONstringify(Append(Stored(file), req[r].leadData))

\* What the handler gives writeFile: the array it read, with its lead pushed.
WriteContent(r) == JSONstringify(req[r].leads)

\* await fs.writeFile settles: the file is replaced as a whole and the
\* success response follows. (History: every other request that has read the
\* same array and has its own write pending is marked as overtaken.)
SubmitWriteOk(r) ==
  /\ req[r].handler = "submit" /\ req[r].pc = "writeFile"
  /\ file' = WriteContent(r)
  /\ LET ok == SubmitOkRes(req[r].leadData)
     IN  /\ last' = [req[r] EXCEPT !.pc = "done", !.res = ok,
                                   !.stored = Stored(file'), !.wrote = TRUE]
         /\ req' = [q \in Reqs |->
                      IF q = r THEN Closed
                      ELSE IF /\ req[q].pc = "writeFile"
                              /\ req[q].snapshot = req[r].snapshot
                             THEN [req[q] EXCEPT !.overtakenBy = ok.status]
                      ELSE req[q]]
  /\ UNCHANGED <<now, config>>

\* await fs.writeFile rejects: the open failed and the file is as it was, or
\* the file was opened (truncated) and the write failed part way.
SubmitWriteFails(r, truncated) ==
  /\ req[r].handler = "submit" /\ req[r].pc = "writeFile"
  /\ file' = IF truncated THEN CorruptFile ELSE file
  /\ Respond(r, [req[r] EXCEPT !.fault = "writeFile"],
             SubmitCatchRes.status, SubmitCatchRes.json)
  /\ UNCHANGED <<now, config>>

\* ------------------------------------------------------- GET /api/leads
\* (mutant) the catch reports the failure
LeadsCatchFails == [status |-> 500, json |-> [isArray |-> TRUE, items |-> <<>>]]

\* catch (error) { res.json([]) }
LeadsCatchRes == [status |-> 200, json |-> [isArray |-> TRUE, items |-> <<>>]]

\* The whole handler: readFile, JSON.parse, res.json(leads).
GetLeads(r, ioOk) ==
  /\ Arrives(r)
  /\ LET got     == ReadAndParse(file, ioOk)
         started == [req[r] EXCEPT !.handler = "leads", !.readOk = got.ok]
     IN  IF got.ok
           THEN Respond(r, started, 200, [isArray |-> got.isArray, items |-> got.items])
           ELSE Respond(r, [started EXCEPT !.fault = "readFile"],
                        LeadsCatchRes.status, LeadsCatchRes.json)
  /\ UNCHANGED <<file, now, config>>

\* ------------------------------------------------------- GET /api/stats
\* Property names every object inherits from Object.prototype (those that
\* the requests of this model can name).
ObjectPrototypeKeys == {Constructor, ToStringKey}

\* {}: an object with no own property
EmptyObject == [k \in {} |-> [t |-> "undefined", n |-> 0]]

\* acc[service]: the own property, else the inherited one, else undefined
GetProp(acc, key) ==
  IF key \in DOMAIN acc THEN acc[key]
  ELSE IF key \in ObjectPrototypeKeys THEN [t |-> "function", n |-> 0]
  ELSE [t |-> "undefined", n |-> 0]

\* (v || 0) + 1: a number is incremented (a stored count is never 0); a
\* function or a string is truthy and + appends "1" to its text. n counts the
\* "1"s appended to the text of the function.
OrZeroPlusOne(v) ==
  CASE v.t = "undefined" -> [t |-> "number", n |-> 1]
    [] v.t = "number"    -> [t |-> "number", n |-> v.n + 1]
    [] OTHER             -> [t |-> "string", n |-> v.n + 1]

\* acc[service] = value
SetProp(acc, key, value) ==
  [k \in (DOMAIN acc) \cup {key} |-> IF k = key THEN value ELSE acc[k]]

\* const service = lead.requirement || 'General Inquiry'
ServiceOf(lead) == IF lead.requirement # <<>> THEN lead.requirement ELSE GeneralInquiry

\* leads.reduce((acc, lead) => { ...; return acc }, {})
RECURSIVE ServiceRequests(_, _)
ServiceRequests(leads, acc) ==
  IF leads = <<>> THEN acc
  ELSE LET service == ServiceOf(Head(leads))
       IN  ServiceRequests(Tail(leads),
                           SetProp(acc, service, OrZeroPlusOne(GetProp(acc, service))))

\* new Date(x).toDateString(): the calendar day (the server's zone taken as UTC)
toDateString(t) == t \div 86400000

\* leads.filter(lead => today === leadDate).length
TodayLeads(leads, t) ==
  Cardinality({i \in 1..Len(leads) :
                 toDateString(t) = toDateString(DateOf(leads[i].submittedAt))})

\* const stats = { totalLeads, todayLeads, serviceRequests }
ComputeStats(leads, t) ==
  [totalLeads      |-> Len(leads),
   todayLeads      |-> TodayLeads(leads, t),
   serviceRequests |-> ServiceRequests(leads, EmptyObject)]

\* catch (error) { res.json({ totalLeads: 0, todayLeads: 0, serviceRequests: {} }) }
StatsCatchRes ==
  [status |-> 200,
   json |-> [totalLeads |-> 0, todayLeads |-> 0, serviceRequests |-> EmptyObject]]

\* The whole handler. A parsed value that is no array has no .filter, which
\* throws into the catch. The filter callback reads the clock, once a lead.
GetStats(r, ioOk, dt) ==
  /\ Arrives(r)
  /\ LET got     == ReadAndParse(file, ioOk)
         started == [req[r] EXCEPT !.handler = "stats", !.readOk = got.ok]
     IN  IF got.ok /\ got.isArray
           THEN /\ now' = IF got.items # <<>> THEN now + dt ELSE now
                /\ Respond(r, [started EXCEPT !.snapshot = got.items],
                           200, ComputeStats(got.items, now'))
           ELSE /\ now' = now
                /\ Respond(r, [started EXCEPT !.fault = IF got.ok THEN "filter" ELSE "readFile"],
                           StatsCatchRes.status, StatsCatchRes.json)
  /\ UNCHANGED <<file, config>>

\* -------------------------------------------------------- POST /api/chat
Hi == <<"h", "i">>
Gpt40 == <<"g", "p", "t", "-", "4", "0">>

\* (mutant) the message is not trimmed
IsShortcutUntrimmed(message) == toLowerCase(message) = Hi

\* message.toLowerCase().trim() === 'hi'
IsShortcut(message) == trim(toLowerCase(message)) = Hi

\* if (AZURE_CONFIG.searchEndpoint && AZURE_CONFIG.searchKey)
SearchConfigured == config.searchEndpoint /\ config.searchKey

\* The fixed text of the system message, before and after the context line.
PromptHead == <<"You are a helpful AI assistant for GradientM ... GradientM Services: ...">>
ContextLabel == "Additional Context: "
PromptTail == <<"Provide helpful, professional responses about GradientM's services. ...">>

\* (mutant) the context line is written whether or not there are results
SystemMessageAlwaysContext(searchResults) ==
  PromptHead \o <<ContextLabel>> \o searchResults \o PromptTail

\* `... ${searchResults ? `Additional Context: ${searchResults}` : ''} ...`
SystemMessage(searchResults) ==
  PromptHead
    \o (IF searchResults # <<>> THEN <<ContextLabel>> \o searchResults ELSE <<>>)
    \o PromptTail

\* Array.prototype.join('\n\n') of the results' content fields
RECURSIVE Join(_)
Join(contents) ==
  IF contents = <<>> THEN <<>>
  ELSE IF Len(contents) = 1 THEN Head(contents)
  ELSE Head(contents) \o <<"\n", "\n">> \o Join(Tail(contents))

\* What the search call settles with: a rejection (network error, non-2xx,
\* timeout), a body without a value array, or value: the contents found.
SearchOutcomes ==
  { [kind |-> "error", value |-> <<>>],
    [kind |-> "novalue", value |-> <<>>],
    [kind |-> "ok", value |-> <<>>],
    [kind |-> "ok", value |-> << <<>> >>],
    [kind |-> "ok", value |-> << <<"d", "1">> >>],
    [kind |-> "ok", value |-> << <<"d", "1">>, <<"d", "2">> >>] }

\* The try block around the search call, with its catch: searchResults
SearchResults(outcome) ==
  IF outcome.kind = "ok" /\ Len(outcome.value) > 0 THEN Join(outcome.value) ELSE <<>>

\* What the completion call settles with: a reply, a rejection, or a body
\* without choices[0].message.content (a TypeError).
CompletionOutcomes ==
  { [kind |-> "ok", content |-> <<"o", "k">>],
    [kind |-> "error", content |-> <<>>],
    [kind |-> "malformed", content |-> <<>>] }

MessageRequiredBody == [error |-> "Message is required"]

\* catch (error) { res.status(500).json({ error: 'I apologize, ...' }) }
ChatCatchRes ==
  [status |-> 500,
   json |-> [error |-> "I apologize, but I'm having trouble connecting to our AI service. Please try again or contact our support team directly."]]

\* The handler up to its first await.
Chat(r, b) ==
  /\ Arrives(r)
  /\ LET started == [req[r] EXCEPT !.handler = "chat", !.body = b]
     IN  IF ~Truthy(b.message)
           THEN Respond(r, started, 400, MessageRequiredBody)
         ELSE IF ~HasStringMethods(b.message)
           THEN Respond(r, [started EXCEPT !.fault = "toLowerCase"],
                        ChatCatchRes.status, ChatCatchRes.json)
         ELSE IF IsShortcut(b.message.s)
           THEN Respond(r, started, 200, [response |-> Gpt40])
         ELSE IF SearchConfigured
           THEN /\ req' = [req EXCEPT ![r] = [started EXCEPT !.pc = "search",
                                                             !.searchCalls = 1]]
                /\ last' = last
         ELSE /\ req' = [req EXCEPT ![r] =
                           [started EXCEPT !.pc = "completion",
                                           !.systemMessage = SystemMessage(<<>>),
                                           !.completionCalls = 1]]
              /\ last' = last
  /\ UNCHANGED <<file, now, config>>

\* The search call settles; the system message is built and the completion
\* call made in the same turn.
SearchDone(r, outcome) ==
  /\ req[r].handler = "chat" /\ req[r].pc = "search"
  /\ LET searchResults == SearchResults(outcome)
     IN  req' = [req EXCEPT ![r].pc = "completion",
                            ![r].searchOutcome = outcome,
                            ![r].searchResults = searchResults,
                            ![r].systemMessage = SystemMessage(searchResults),
                            ![r].completionCalls = 1]
  /\ UNCHANGED <<file, now, config, last>>

\* The completion call settles.
CompletionDone(r, outcome) ==
  /\ req[r].handler = "chat" /\ req[r].pc = "completion"
  /\ IF outcome.kind = "ok"
       THEN Respond(r, [req[r] EXCEPT !.completionOutcome = outcome],
                    200, [response |-> outcome.content])
       ELSE Respond(r, [req[r] EXCEPT !.completionOutcome = outcome,
                                      !.fault = "completion"],
                    ChatCatchRes.status, ChatCatchRes.json)
  /\ UNCHANGED <<file, now, config>>

\* ------------------------------------------------------------- the inputs
A1 == Str(<<"A">>)
Blank == Str(<<" ">>)
GoodEmail == Str(<<"a", "@", "b", ".", "c">>)

\* A valid submission with the optional fields absent.
BaseBody == [name |-> A1, phone |-> Str(<<"1">>), email |-> GoodEmail,
             company |-> Str(<<"X">>), message |-> Undefined,
             requirement |-> Undefined, type |-> Undefined,
             ip |-> Str(<<":", ":", "1">>)]

\* A submission whose name and requirement are a single space.
BlankBody == [BaseBody EXCEPT !.name = Blank, !.requirement = Blank]

\* The submissions: the valid one, the blank one, and the valid one with one
\* field changed.
SubmitBodies ==
  {BaseBody, BlankBody}
    \cup {[BaseBody EXCEPT !.name = v] : v \in {Undefined, Str(<<>>), Num7}}
    \cup {[BaseBody EXCEPT !.email = v] : v \in
            {Str(<<"a", "@", "b">>),
             Str(<<"@", "b", ".", "c">>),
             Arr(<<"a", "@", "b", ".", "c">>)}}
    \cup {[BaseBody EXCEPT !.company = v] : v \in {Undefined}}
    \cup {[BaseBody EXCEPT !.requirement = v] : v \in {Str(Constructor)}}

ChatBodies ==
  {[NoBody EXCEPT !.message = v] : v \in
     {Undefined, Str(<<>>), Num7,
      Str(<<"h", "i">>), Str(<<" ", "H", "i", " ">>), Str(<<"H", "I">>),
      Str(<<"\t", "h", "I", "\n">>),
      Str(<<"h", "i", "!">>), Str(<<"h", " ", "i">>), Blank}}

\* ----------------------------------------------------- the specifications
\* The handlers share no state but the leads file, and the chat handler
\* neither reads nor writes it: the three handlers of the store and the chat
\* handler are checked apart, each from its own part of the start state.
StoreNext ==
  \/ \E r \in Reqs : \E b \in SubmitBodies : \E dt \in Elapsed : SubmitLead(r, b, dt)
  \/ \E r \in Reqs : \E ok \in BOOLEAN : MkdirDone(r, ok)
  \/ \E r \in Reqs : \E ioOk \in BOOLEAN : SubmitReadDone(r, ioOk)
  \/ \E r \in Reqs : SubmitWriteOk(r)
  \/ \E r \in Reqs : \E truncated \in BOOLEAN : SubmitWriteFails(r, truncated)
  \/ \E r \in Reqs : \E ioOk \in BOOLEAN : GetLeads(r, ioOk)
  \/ \E r \in Reqs : \E ioOk \in BOOLEAN : \E dt \in Elapsed : GetStats(r, ioOk, dt)

ChatNext ==
  \/ \E r \in Reqs : \E b \in ChatBodies : Chat(r, b)
  \/ \E r \in Reqs : \E o \in SearchOutcomes : SearchDone(r, o)
  \/ \E r \in Reqs : \E o \in CompletionOutcomes : CompletionDone(r, o)

Next == StoreNext \/ ChatNext

Spec == Init /\ [][Next]_vars

\* The store's handlers, with no search provider configured.
StoreInit == Init /\ ~config.searchEndpoint /\ ~config.searchKey

StoreSpec == StoreInit /\ [][StoreNext]_vars

\* The store's handlers when the file system never fails: mkdir and
\* writeFile succeed, readFile fails only for want of the file.
NoFaultNext ==
  \/ \E r \in Reqs : \E b \in SubmitBodies : \E dt \in Elapsed : SubmitLead(r, b, dt)
  \/ \E r \in Reqs : MkdirDone(r, TRUE)
  \/ \E r \in Reqs : SubmitReadDone(r, TRUE)
  \/ \E r \in Reqs : SubmitWriteOk(r)
  \/ \E r \in Reqs : GetLeads(r, TRUE)
  \/ \E r \in Reqs : \E dt \in Elapsed : GetStats(r, TRUE, dt)

NoFaultInit == StoreInit /\ file \in {AbsentFile, JSONstringify(<<>>)}

NoFaultSpec == NoFaultInit /\ [][NoFaultNext]_vars

\* The chat handler, with no leads file.
ChatInit == Init /\ file = AbsentFile

ChatSpec == ChatInit /\ [][ChatNext]_vars

\* ================================================================ claims
\* A field of a request body that is present and not the empty string.
NonEmpty(v) == v.t # "undefined" /\ v.s # <<>>

\* A submission as the claims call it valid: the four required fields
\* non-empty and the e-mail of the required shape.
ClaimValid(b) ==
  /\ NonEmpty(b.name) /\ NonEmpty(b.phone) /\ NonEmpty(b.email) /\ NonEmpty(b.company)
  /\ emailRegexTest(b.email.s)

\* Every field that the handler trims is a string (the optional ones, when given).
FieldsAreStrings(b) ==
  /\ \A v \in {b.name, b.phone, b.email, b.company} : v.t = "string"
  /\ \A v \in {b.message, b.requirement} : v.t \in {"string", "undefined"}

InternalError == [status |-> 500,
                  json |-> [success |-> FALSE, message |-> "Internal server error"]]

BlankOrAbsent(v) == v.t = "undefined" \/ (v.t = "string" /\ trim(v.s) = <<>>)

ClaimInvalid(b) ==
  \/ BlankOrAbsent(b.name) \/ BlankOrAbsent(b.phone)
  \/ BlankOrAbsent(b.email) \/ BlankOrAbsent(b.company)
  \/ ~emailRegexTest(b.email.s)

\* C2, as stated: a submit-lead request that fails validation is answered 400
\* with success false and has written no record.
C2_InvalidSubmissionRejected ==
  (last.handler = "submit" /\ ClaimInvalid(last.body)) =>
     /\ last.res.status = 400
     /\ ~last.res.json.success
     /\ ~last.wrote

\* C3: a read handler always answers 200 and leaves the file as it is, and
\* when the file is absent, unreadable or unparsable GET /api/leads answers []
\* and GET /api/stats answers {totalLeads: 0, todayLeads: 0, serviceRequests: {}}.
C3_ReadsFailOpen ==
  [][(last' # last /\ last'.handler \in {"leads", "stats"}) =>
        /\ file' = file
        /\ last'.res.status = 200
        /\ (file.kind \in {"absent", "corrupt"} \/ ~last'.readOk) =>
              last'.res.json =
                 IF last'.handler = "leads"
                   THEN [isArray |-> TRUE, items |-> <<>>]
                   ELSE [totalLeads |-> 0, todayLeads |-> 0,
                         serviceRequests |-> EmptyObject]]_vars

\* GET /api/leads has answered [] because the read failed, while leads are stored.
C3_Witness ==
  /\ last.handler = "leads" /\ ~last.readOk
  /\ last.res.status = 200 /\ last.res.json.items = <<>>
  /\ Stored(file) # <<>>

\* C4: a submit-lead request whose mkdir or writeFile failed is answered 500
\* with success false and the generic message; a success acknowledgment is
\* sent only by a request whose write has completed, leaving the array it
\* built in the file.
C4_WriteFailuresSurface ==
  last.handler = "submit" =>
     /\ last.fault \in {"mkdir", "writeFile"} => last.res = InternalError
     /\ last.res.status = 200 =>
           /\ last.wrote /\ last.fault = "none"
           /\ last.stored = last.leads

\* A valid submission has been answered 500 because its write failed.
C4_Witness ==
  /\ last.handler = "submit" /\ ClaimValid(last.body)
  /\ last.fault = "writeFile" /\ last.res.status = 500

\* A chat message that, trimmed and lower-cased, is exactly "hi".
ClaimIsHi(v) == v.t = "string" /\ toLowerCase(trim(v.s)) = <<"h", "i">>

\* C5: a chat request whose message, trimmed and lower-cased, is "hi" is
\* answered with the literal gpt-40 and makes no call to the search or the
\* completion provider (it is never in flight, waiting for one).
C5_HiShortcut ==
  /\ \A r \in Reqs : req[r].handler = "chat" => ~ClaimIsHi(req[r].body.message)
  /\ (last.handler = "chat" /\ ClaimIsHi(last.body.message)) =>
        /\ last.res = [status |-> 200,
                       json |-> [response |-> <<"g", "p", "t", "-", "4", "0">>]]
        /\ last.searchCalls = 0
        /\ last.completionCalls = 0

\* " Hi " has been answered by the shortcut.
C5_Witness ==
  /\ last.handler = "chat"
  /\ last.body.message = Str(<<" ", "H", "i", " ">>)
  /\ last.res.status = 200

\* A chat message that passes validation and is not the shortcut.
ClaimRelayed(v) == v.t = "string" /\ v.s # <<>> /\ ~ClaimIsHi(v)

\* The search gave nothing: no provider configured, a failed call, a reply
\* without results.
SearchDegraded(q) ==
  \/ ~(config.searchEndpoint /\ config.searchKey)
  \/ q.searchOutcome.kind \in {"error", "novalue"}
  \/ (q.searchOutcome.kind = "ok" /\ q.searchOutcome.value = <<>>)

C6_Degrades(q) ==
  (q.handler = "chat" /\ ClaimRelayed(q.body.message) /\ SearchDegraded(q)) =>
     /\ q.pc \in {"completion", "done"}
     /\ q.completionCalls = 1
     /\ \A i \in 1..Len(q.systemMessage) : q.systemMessage[i] # "Additional Context: "
     /\ ~(config.searchEndpoint /\ config.searchKey) => q.searchCalls = 0
     /\ q.pc = "done" =>
           IF q.completionOutcome.kind = "ok"
             THEN q.res = [status |-> 200,
                           json |-> [response |-> q.completionOutcome.content]]
             ELSE q.res.status = 500

\* C6: a chat request that is not the shortcut and whose search is not
\* configured, fails or finds nothing goes on to the completion call with a
\* system message without the "Additional Context" section, and is answered
\* as the completion call alone decides.
C6_SearchDegradesGracefully ==
  /\ \A r \in Reqs : req[r].pc # "search" => C6_Degrades(req[r])
  /\ C6_Degrades(last)

\* A chat request whose search call failed has been answered with the reply
\* of the completion provider.
C6_Witness ==
  /\ last.handler = "chat" /\ last.searchOutcome.kind = "error"
  /\ last.res.status = 200

\* The bucket C7 counts a lead under.
ClaimService(lead) ==
  IF lead.requirement = <<>>
    THEN <<"G","e","n","e","r","a","l"," ","I","n","q","u","i","r","y">>
    ELSE lead.requirement

\* C7, as stated: over an array of leads that could be read, GET /api/stats
\* answers totalLeads = the number of leads and serviceRequests = the number
\* of leads of each requirement, the empty requirement counted under
\* "General Inquiry".
C7_StatsCountLeads ==
  (last.handler = "stats" /\ last.readOk /\ last.fault = "none") =>
     LET leads == last.snapshot
         json  == last.res.json
     IN  /\ json.totalLeads = Len(leads)
         /\ DOMAIN json.serviceRequests = {ClaimService(leads[i]) : i \in 1..Len(leads)}
         /\ \A k \in DOMAIN json.serviceRequests :
               json.serviceRequests[k] =
                  [t |-> "number",
                   n |-> Cardinality({i \in 1..Len(leads) : ClaimService(leads[i]) = k})]

\* C8, as stated: no two stored leads have the same id.
C8_IdsUnique ==
  \A i, j \in 1..Len(Stored(file)) :
     i # j => Stored(file)[i].id # Stored(file)[j].id

IsPrefix(a, b) == Len(a) =< Len(b) /\ SubSeq(b, 1, Len(a)) = a

\* C9, as stated: every step leaves the stored leads as they were, or
\* extends them at the tail.
C9_AppendOnly == [][IsPrefix(Stored(file), Stored(file'))]_vars

\* C10: when a request has written while another, which had read the same
\* array, had its own write pending, the first was answered with success, and
\* the second is too and leaves the file as the array both read followed by its
\* own lead alone: one record more than the array read, not two.
C10_SecondWriteWins ==
  (last.handler = "submit" /\ last.wrote /\ last.overtakenBy # 0) =>
     /\ last.overtakenBy = 200
     /\ last.res.status = 200 /\ last.res.json.success
     /\ last.stored = Append(last.snapshot, last.leadData)
     /\ Len(last.stored) = Len(last.snapshot) + 1

\* The second of two racing writers has written.
C10_Witness ==
  /\ last.handler = "submit" /\ last.wrote /\ last.overtakenBy = 200
  /\ last.res.status = 200

====
